---- MODULE Spec2Model ----
(***************************************************************************)
(* Model of the quotation server (src/src/server.js): the money arithmetic *)
(* (round2, calculateItem, buildQuoteSummary), the item parser and the     *)
(* transactional save of a quotation (saveQuote).                          *)
(*                                                                         *)
(* JavaScript numbers are IEEE-754 binary64 values.  They are modelled     *)
(* exactly: a finite double is sign * m * 2^e with a 53-bit significand m, *)
(* and every arithmetic operation computes the exact result and rounds it  *)
(* to the nearest double, ties to even.  Significands and the exact        *)
(* intermediate values do not fit the model checker's integers, so they    *)
(* are kept as little-endian sequences of 15-bit limbs ("Big" naturals).   *)
(***************************************************************************)
EXTENDS Integers, Sequences, FiniteSets, TLC

(***************************************************************************)
(* Big naturals: <<>> is 0, no trailing zero limb.                         *)
(***************************************************************************)
LimbBits == 3 * 5
Base == 2 ^ LimbBits

Rest(a) == IF a = <<>> THEN <<>> ELSE Tail(a)
Low(a) == IF a = <<>> THEN 0 ELSE Head(a)

RECURSIVE BigNorm(_)
BigNorm(a) ==
  IF a = <<>> THEN <<>>
  ELSE IF a[Len(a)] = 0 THEN BigNorm(SubSeq(a, 1, Len(a) - 1))
  ELSE a

RECURSIVE BigFromNat(_)
BigFromNat(n) ==
  IF n = 0 THEN <<>> ELSE <<n % Base>> \o BigFromNat(n \div Base)

RECURSIVE BigAddC(_, _, _)
BigAddC(a, b, c) ==
  IF a = <<>> /\ b = <<>>
  THEN (IF c = 0 THEN <<>> ELSE <<c>>)
  ELSE LET x == Low(a) + Low(b) + c
       IN  <<x % Base>> \o BigAddC(Rest(a), Rest(b), x \div Base)

BigAdd(a, b) == BigAddC(a, b, 0)

\* a - b for a >= b
RECURSIVE BigSubC(_, _, _)
BigSubC(a, b, c) ==
  IF a = <<>> THEN <<>>
  ELSE LET x == Low(a) - Low(b) - c
       IN  IF x < 0
           THEN <<x + Base>> \o BigSubC(Rest(a), Rest(b), 1)
           ELSE <<x>> \o BigSubC(Rest(a), Rest(b), 0)

BigSub(a, b) == BigNorm(BigSubC(a, b, 0))

\* -1, 0, 1 as a < b, a = b, a > b
RECURSIVE BigCmpFrom(_, _, _)
BigCmpFrom(a, b, i) ==
  IF i = 0 THEN 0
  ELSE IF a[i] < b[i] THEN -1
  ELSE IF a[i] > b[i] THEN 1
  ELSE BigCmpFrom(a, b, i - 1)

BigCmp(a, b) ==
  IF Len(a) < Len(b) THEN -1
  ELSE IF Len(a) > Len(b) THEN 1
  ELSE BigCmpFrom(a, b, Len(a))

\* a * k for 0 <= k < Base
RECURSIVE BigMulSmallC(_, _, _)
BigMulSmallC(a, k, c) ==
  IF a = <<>> THEN (IF c = 0 THEN <<>> ELSE <<c>>)
  ELSE LET x == Head(a) * k + c
       IN  <<x % Base>> \o BigMulSmallC(Tail(a), k, x \div Base)

BigMulSmall(a, k) == IF k = 0 THEN <<>> ELSE BigMulSmallC(a, k, 0)

BigShlLimbs(a, n) == IF a = <<>> THEN <<>> ELSE [i \in 1..n |-> 0] \o a

RECURSIVE BigMul(_, _)
BigMul(a, b) ==
  IF b = <<>> \/ a = <<>> THEN <<>>
  ELSE BigAdd(BigMulSmall(a, Head(b)), BigShlLimbs(BigMul(a, Tail(b)), 1))

\* a * 2^k
BigShl(a, k) == BigShlLimbs(BigMulSmall(a, 2 ^ (k % LimbBits)), k \div LimbBits)

\* floor(a / d) for 0 < d < Base, from the top limb down
RECURSIVE BigDivSmallFrom(_, _, _, _)
BigDivSmallFrom(a, d, i, r) ==
  IF i = 0 THEN <<>>
  ELSE LET x == r * Base + a[i]
       IN  BigDivSmallFrom(a, d, i - 1, x % d) \o <<x \div d>>

BigDivSmall(a, d) == BigNorm(BigDivSmallFrom(a, d, Len(a), 0))

\* floor(a / 2^k)
BigShr(a, k) ==
  LET n == k \div LimbBits
  IN  IF n >= Len(a) THEN <<>>
      ELSE BigDivSmall(SubSeq(a, n + 1, Len(a)), 2 ^ (k % LimbBits))

RECURSIVE NatBitLen(_)
NatBitLen(n) == IF n = 0 THEN 0 ELSE 1 + NatBitLen(n \div 2)

BigBitLen(a) ==
  IF a = <<>> THEN 0 ELSE (Len(a) - 1) * LimbBits + NatBitLen(a[Len(a)])

BigIsOdd(a) == a # <<>> /\ a[1] % 2 = 1

BigOne == <<1>>

\* floor(n / d) and the remainder by binary long division; the quotient
\* must be below 2^(top+1).  (Len(q) < 0 is never true: the test only makes
\* the checker evaluate the accumulated quotient at every step.)
RECURSIVE BigDivModFrom(_, _, _, _)
BigDivModFrom(r, d, i, q) ==
  IF i < 0 \/ Len(q) < 0 \/ Len(r) < 0 THEN [q |-> q, r |-> r]
  ELSE LET t == BigShl(d, i)
       IN  IF BigCmp(t, r) <= 0
           THEN BigDivModFrom(BigSub(r, t), d, i - 1, BigAdd(q, BigShl(BigOne, i)))
           ELSE BigDivModFrom(r, d, i - 1, q)

\* a mod d for 0 < d < Base
RECURSIVE BigModSmallFrom(_, _, _, _)
BigModSmallFrom(a, d, i, r) ==
  IF i = 0 THEN r ELSE BigModSmallFrom(a, d, i - 1, (r * Base + a[i]) % d)

BigDivMod(n, d) ==
  LET top == BigBitLen(n) - BigBitLen(d)
  IN  IF top < 0 THEN [q |-> <<>>, r |-> n]
      ELSE IF Len(d) = 1
        THEN [q |-> BigDivSmall(n, d[1]),
              r |-> BigFromNat(BigModSmallFrom(n, d[1], Len(n), 0))]
      ELSE BigDivModFrom(n, d, top, <<>>)

\* the number of trailing zero bits of a > 0
RECURSIVE NatTrailingZeros(_)
NatTrailingZeros(n) == IF n % 2 = 1 THEN 0 ELSE 1 + NatTrailingZeros(n \div 2)

RECURSIVE BigTrailingZeros(_)
BigTrailingZeros(a) ==
  IF Head(a) = 0 THEN LimbBits + BigTrailingZeros(Tail(a))
  ELSE NatTrailingZeros(Head(a))

(***************************************************************************)
(* binary64.  k is "fin", "inf" or "nan"; s is the sign bit; a finite      *)
(* non-zero value has 2^52 <= m < 2^53 and is m * 2^e; zero has m = <<>>.  *)
(* Gradual underflow (values below 2^-1022) is not modelled: no input of   *)
(* the model comes near it.                                                *)
(***************************************************************************)
MantBits == 53
MaxExp == 971

DNaN == [k |-> "nan", s |-> 0, m |-> <<>>, e |-> 0]
DInf(s) == [k |-> "inf", s |-> s, m |-> <<>>, e |-> 0]
DZero(s) == [k |-> "fin", s |-> s, m |-> <<>>, e |-> 0]
DIsZero(x) == x.k = "fin" /\ x.m = <<>>
DIsFinite(x) == x.k = "fin"
Xor(a, b) == (a + b) % 2

\* The double nearest to (-1)^s * (n / d) * 2^e, ties to even (n, d > 0),
\* in steps.  Last step: q1 is the rounded quotient, of 53 or 54 bits.
RoundRatPack(s, q1, e) ==
  LET carry == BigBitLen(q1) > MantBits
  IN  IF e + (IF carry THEN 1 ELSE 0) > MaxExp THEN DInf(s)
      ELSE [k |-> "fin", s |-> s, m |-> IF carry THEN BigShr(q1, 1) ELSE q1,
            e |-> e + (IF carry THEN 1 ELSE 0)]

\* q is the quotient rounded down and c compares twice the remainder with
\* the divisor: round up above the middle, and at the middle when q is odd
RoundRatUp(s, q, c, e) ==
  RoundRatPack(s, IF c > 0 \/ (c = 0 /\ BigIsOdd(q)) THEN BigAdd(q, BigOne) ELSE q, e)

RoundRatTie(s, qr, d, e) == RoundRatUp(s, qr.q, BigCmp(BigShl(qr.r, 1), d), e)

\* 2^52 <= n / d < 2^53
RoundRatQuot(s, n, d, e) == RoundRatTie(s, BigDivMod(n, d), d, e)

\* 2^52 <= n / d < 2^54
RoundRatAligned(s, n, d, e) ==
  LET big == BigCmp(n, BigShl(d, MantBits)) >= 0
  IN  RoundRatQuot(s, n, IF big THEN BigShl(d, 1) ELSE d, IF big THEN e + 1 ELSE e)

\* t is bitlength(n) - bitlength(d) - 53: scale n or d by 2^|t|
RoundRatScaled(s, n, d, e, t) ==
  RoundRatAligned(s, IF t < 0 THEN BigShl(n, -t) ELSE n,
                     IF t > 0 THEN BigShl(d, t) ELSE d, e + t)

RoundRat(s, n, d, e) ==
  IF n = <<>> THEN DZero(s)
  ELSE RoundRatScaled(s, n, d, e, BigBitLen(n) - BigBitLen(d) - MantBits)

DFromNat(n) == RoundRat(0, BigFromNat(n), BigOne, 0)

RECURSIVE Pow10(_)
Pow10(k) == IF k = 0 THEN BigOne ELSE BigMulSmall(Pow10(k - 1), 10)

\* The number a decimal literal denotes: digits n with `scale` of them after
\* the point.
DFromDecimal(s, n, scale) == RoundRat(s, n, Pow10(scale), 0)

\* x + y for finite non-zero x and y whose significands mx and my are
\* aligned to the exponent e; c compares mx with my
DAddAligned(xs, ys, mx, my, c, e) ==
  IF xs # ys /\ c = 0 THEN DZero(0)
  ELSE RoundRat(IF xs = ys \/ c > 0 THEN xs ELSE ys,
                IF xs = ys THEN BigAdd(mx, my)
                ELSE IF c > 0 THEN BigSub(mx, my) ELSE BigSub(my, mx),
                BigOne, e)

DAddShifted(xs, ys, mx, my, e) == DAddAligned(xs, ys, mx, my, BigCmp(mx, my), e)

DAddFinite(x, y, e) ==
  DAddShifted(x.s, y.s, BigShl(x.m, x.e - e), BigShl(y.m, y.e - e), e)

\* x + y
DAdd(x, y) ==
  IF x.k = "nan" \/ y.k = "nan" THEN DNaN
  ELSE IF x.k = "inf" /\ y.k = "inf" THEN (IF x.s = y.s THEN x ELSE DNaN)
  ELSE IF x.k = "inf" THEN x
  ELSE IF y.k = "inf" THEN y
  ELSE IF DIsZero(x) /\ DIsZero(y) THEN DZero(IF x.s = 1 /\ y.s = 1 THEN 1 ELSE 0)
  ELSE IF DIsZero(x) THEN y
  ELSE IF DIsZero(y) THEN x
  ELSE IF x.e - y.e > 2 * MantBits THEN x
  ELSE IF y.e - x.e > 2 * MantBits THEN y
  ELSE DAddFinite(x, y, IF x.e < y.e THEN x.e ELSE y.e)

\* x * y
DMul(x, y) ==
  IF x.k = "nan" \/ y.k = "nan" THEN DNaN
  ELSE IF x.k = "inf" \/ y.k = "inf"
    THEN (IF DIsZero(x) \/ DIsZero(y) THEN DNaN ELSE DInf(Xor(x.s, y.s)))
  ELSE IF DIsZero(x) \/ DIsZero(y) THEN DZero(Xor(x.s, y.s))
  ELSE RoundRat(Xor(x.s, y.s), BigMul(x.m, y.m), BigOne, x.e + y.e)

\* x / y
DDiv(x, y) ==
  IF x.k = "nan" \/ y.k = "nan" THEN DNaN
  ELSE IF x.k = "inf" THEN (IF y.k = "inf" THEN DNaN ELSE DInf(Xor(x.s, y.s)))
  ELSE IF y.k = "inf" THEN DZero(Xor(x.s, y.s))
  ELSE IF DIsZero(y) THEN (IF DIsZero(x) THEN DNaN ELSE DInf(Xor(x.s, y.s)))
  ELSE IF DIsZero(x) THEN DZero(Xor(x.s, y.s))
  ELSE LET z == BigTrailingZeros(y.m)
       IN  RoundRat(Xor(x.s, y.s), x.m, BigShr(y.m, z), x.e - y.e - z)

\* Math.round(x): the integer nearest to x, a tie going towards +Infinity.
\* With x = m / 2^sh: floor(x + 1/2) for x > 0 and -ceil(|x| - 1/2) for x < 0.
MathRoundShift(x, sh, half) ==
  IF sh > MantBits THEN DZero(x.s)
  ELSE IF x.s = 1 /\ BigCmp(x.m, half) <= 0 THEN DZero(1)
  ELSE RoundRat(x.s,
         BigShr(IF x.s = 0 THEN BigAdd(x.m, half)
                ELSE BigAdd(BigSub(x.m, half), BigSub(BigShl(BigOne, sh), BigOne)), sh),
         BigOne, 0)

MathRound(x) ==
  IF x.k # "fin" \/ x.m = <<>> \/ x.e >= 0 THEN x
  ELSE MathRoundShift(x, -x.e, BigShl(BigOne, -x.e - 1))

\* x === y on numbers: NaN equals nothing, +0 equals -0
DEq(x, y) ==
  /\ x.k # "nan"
  /\ y.k # "nan"
  /\ \/ x = y
     \/ DIsZero(x) /\ DIsZero(y)

\* Number.EPSILON = 2^-52
EPSILON == [k |-> "fin", s |-> 0, m |-> BigShl(BigOne, MantBits - 1), e |-> 0 - 2 * (MantBits - 1)]
Hundred == DFromNat(100)
Two == DFromNat(2)

\* function round2(value): Math.round((Number(value) + Number.EPSILON) * 100) / 100
round2(value) == DDiv(MathRound(DMul(DAdd(value, EPSILON), Hundred)), Hundred)

(***************************************************************************)
(* JavaScript values.  Every value is a record of one shape: t is the      *)
(* type, n the number of a "number", s the characters of a "string" (a     *)
(* sequence of one-character strings).                                     *)
(***************************************************************************)
Undefined == [t |-> "undefined", n |-> DZero(0), s |-> <<>>]
Null == [t |-> "null", n |-> DZero(0), s |-> <<>>]
JNum(d) == [t |-> "number", n |-> d, s |-> <<>>]
JStr(s) == [t |-> "string", n |-> DZero(0), s |-> s]

\* ToBoolean, as `||` and `!` apply it
Truthy(v) ==
  \/ v.t = "number" /\ v.n.k # "nan" /\ ~DIsZero(v.n)
  \/ v.t = "string" /\ v.s # <<>>

\* a || b
OrElse(a, b) == IF Truthy(a) THEN a ELSE b

WhiteSpace == {" ", "\t", "\n"}

RECURSIVE TrimStart(_)
TrimStart(s) ==
  IF s # <<>> /\ Head(s) \in WhiteSpace THEN TrimStart(Tail(s)) ELSE s

RECURSIVE TrimEnd(_)
TrimEnd(s) ==
  IF s # <<>> /\ s[Len(s)] \in WhiteSpace THEN TrimEnd(SubSeq(s, 1, Len(s) - 1)) ELSE s

\* String.prototype.trim
Trim(s) == TrimEnd(TrimStart(s))

DigitVal ==
  [c \in {"0", "1", "2", "3", "4", "5", "6", "7", "8", "9"} |->
     CASE c = "0" -> 0 [] c = "1" -> 1 [] c = "2" -> 2 [] c = "3" -> 3 [] c = "4" -> 4
       [] c = "5" -> 5 [] c = "6" -> 6 [] c = "7" -> 7 [] c = "8" -> 8 [] c = "9" -> 9]

IsDigit(c) == c \in DOMAIN DigitVal

\* The digits of s read as a natural number, most significant first
RECURSIVE DigitsValue(_, _)
DigitsValue(s, acc) ==
  IF s = <<>> THEN acc
  ELSE DigitsValue(Tail(s), BigAdd(BigMulSmall(acc, 10), BigFromNat(DigitVal[Head(s)])))

IsPoint(c) == c = "."

\* The position of the first point of u, Len(u) + 1 when it has none
RECURSIVE PointAt(_, _)
PointAt(u, i) == IF i > Len(u) \/ u[i] = "." THEN i ELSE PointAt(u, i + 1)

\* u holds digits and at most one point: the digits as a number, scaled by
\* the count of digits after the point
DigitsToNumber(neg, u, digits, pointAt) ==
  DFromDecimal(IF neg THEN 1 ELSE 0, DigitsValue(digits, <<>>), 
               IF pointAt > Len(u) THEN 0 ELSE Len(u) - pointAt)

UnsignedToNumber(neg, u, digits, points) ==
  IF digits = <<>> \/ Len(points) > 1 \/ Len(digits) + Len(points) # Len(u) THEN DNaN
  ELSE DigitsToNumber(neg, u, digits, PointAt(u, 1))

SignedToNumber(neg, u) ==
  UnsignedToNumber(neg, u, SelectSeq(u, IsDigit), SelectSeq(u, IsPoint))

TrimmedToNumber(t) ==
  IF t = <<>> THEN DZero(0)
  ELSE SignedToNumber(Head(t) = "-", IF Head(t) \in {"-", "+"} THEN Tail(t) ELSE t)

\* Number(string) for the strings of the model: optional white space, an
\* optional sign, decimal digits with at most one point; the empty string is
\* 0 and anything else NaN.  (Exponents, hexadecimal and "Infinity" are not
\* among the strings the model submits.)
StringToNumber(str) == TrimmedToNumber(Trim(str))

\* Number(v)
ToNumber(v) ==
  CASE v.t = "number" -> v.n
    [] v.t = "string" -> StringToNumber(v.s)
    [] v.t = "null" -> DZero(0)
    [] OTHER -> DNaN

\* String(v || '') for the names of the model: strings, null or absent
NameString(v) == IF v.t = "string" THEN v.s ELSE <<>>

(***************************************************************************)
(* A submitted line item: an element of the parsed JSON array.  t is       *)
(* "object" for an object and "null" for a JSON null; a property the       *)
(* object does not have reads as Undefined.                                *)
(***************************************************************************)
ItemFields ==
  {"name", "product_id", "description", "hsn", "unit",
   "qty", "unit_price", "gst_rate", "taxable", "cgst", "sgst", "total"}

EmptyItem ==
  [t |-> "object", name |-> Undefined, product_id |-> Undefined,
   description |-> Undefined, hsn |-> Undefined, unit |-> Undefined,
   qty |-> Undefined, unit_price |-> Undefined, gst_rate |-> Undefined,
   taxable |-> Undefined, cgst |-> Undefined, sgst |-> Undefined,
   total |-> Undefined]

NullItem == [EmptyItem EXCEPT !.t = "null"]

\* function calculateItem(item), in the order of its statements.
\* Last: total, and the returned object
CalculatedItem(item, qty, unitPrice, gstRate, taxable, cgst, sgst) ==
  [item EXCEPT !.qty = JNum(qty),
               !.unit_price = JNum(unitPrice),
               !.gst_rate = JNum(gstRate),
               !.taxable = JNum(taxable),
               !.cgst = JNum(cgst),
               !.sgst = JNum(sgst),
               !.total = JNum(round2(DAdd(DAdd(taxable, cgst), sgst)))]

\* A variant of CalculateTaxes: sgst as what is left of the whole tax
CalculateTaxesRemainder(item, qty, unitPrice, gstRate, taxable, halfRate) ==
  CalculatedItem(item, qty, unitPrice, gstRate, taxable,
                 round2(DDiv(DMul(taxable, halfRate), Hundred)),
                 round2(DAdd(round2(DDiv(DMul(taxable, gstRate), Hundred)),
                             DMul(DFromDecimal(1, BigOne, 0),
                                  round2(DDiv(DMul(taxable, halfRate), Hundred))))))

\* cgst and sgst
CalculateTaxes(item, qty, unitPrice, gstRate, taxable, halfRate) ==
  CalculatedItem(item, qty, unitPrice, gstRate, taxable,
                 round2(DDiv(DMul(taxable, halfRate), Hundred)),
                 round2(DDiv(DMul(taxable, halfRate), Hundred)))

\* A variant of CalculateTaxable: the taxes and the total are taken from the
\* unrounded product, and only the taxable field is rounded
CalculateTaxableLate(item, qty, unitPrice, gstRate) ==
  [CalculateTaxes(item, qty, unitPrice, gstRate, DMul(qty, unitPrice), DDiv(gstRate, Two))
     EXCEPT !.taxable = JNum(round2(DMul(qty, unitPrice)))]

\* taxable and halfRate
CalculateTaxable(item, qty, unitPrice, gstRate) ==
  CalculateTaxes(item, qty, unitPrice, gstRate,
                 round2(DMul(qty, unitPrice)), DDiv(gstRate, Two))

\* qty, unitPrice and gstRate.  Reading a property of null throws a
\* TypeError: the result then has t = "TypeError" and no meaningful fields.
calculateItem(item) ==
  IF item.t # "object" THEN [EmptyItem EXCEPT !.t = "TypeError"]
  ELSE CalculateTaxable(item,
                        ToNumber(OrElse(item.qty, JNum(DZero(0)))),
                        ToNumber(OrElse(item.unit_price, JNum(DZero(0)))),
                        ToNumber(OrElse(item.gst_rate, JNum(DZero(0)))))

\* items.reduce((sum, item) => sum + item[field], 0)
RECURSIVE SumField(_, _, _)
SumField(items, field, sum) ==
  IF items = <<>> THEN sum
  ELSE SumField(Tail(items), field, DAdd(sum, Head(items)[field].n))

\* function buildQuoteSummary(items): the three sums, then total
SummaryOf(subtotal, cgstTotal, sgstTotal) ==
  [subtotal |-> subtotal, cgstTotal |-> cgstTotal, sgstTotal |-> sgstTotal,
   total |-> round2(DAdd(DAdd(subtotal, cgstTotal), sgstTotal))]

\* items.reduce((sum, item) => sum + item.qty * item.unit_price, 0)
RECURSIVE SumProducts(_, _)
SumProducts(items, sum) ==
  IF items = <<>> THEN sum
  ELSE SumProducts(Tail(items), DAdd(sum, DMul(Head(items).qty.n, Head(items).unit_price.n)))

\* A variant of buildQuoteSummary: the subtotal from the unrounded line amounts
buildQuoteSummaryUnrounded(items) ==
  SummaryOf(round2(SumProducts(items, DZero(0))),
            round2(SumField(items, "cgst", DZero(0))),
            round2(SumField(items, "sgst", DZero(0))))

buildQuoteSummary(items) ==
  SummaryOf(round2(SumField(items, "taxable", DZero(0))),
            round2(SumField(items, "cgst", DZero(0))),
            round2(SumField(items, "sgst", DZero(0))))

\* parsed.map(calculateItem)
MapCalculateItem(parsed) == [i \in 1..Len(parsed) |-> calculateItem(parsed[i])]

\* (item) => String(item.name || '').trim()
HasName(item) == Trim(NameString(OrElse(item.name, JStr(<<>>)))) # <<>>

(***************************************************************************)
(* The items_json field of a request body, by what JSON.parse makes of it: *)
(* kind "absent" (the field is missing or empty, so '[]' is parsed),       *)
(* "malformed" (JSON.parse throws), "array" (elems are its elements) or    *)
(* "other" (valid JSON that is not an array).                              *)
(***************************************************************************)
ItemsJson(kind, elems) == [kind |-> kind, elems |-> elems]

\* A variant of CheckItems: the items with a blank name are kept
CheckItemsUnfiltered(items) ==
  IF \E i \in 1..Len(items) : items[i].t = "TypeError"
    THEN [err |-> "TypeError", items |-> <<>>]
  ELSE IF Len(items) = 0
    THEN [err |-> "Please add at least one item.", items |-> <<>>]
  ELSE IF ~\E i \in 1..Len(items) : HasName(items[i])
    THEN [err |-> "Please provide item name.", items |-> <<>>]
  ELSE [err |-> "", items |-> items]

\* function parseItems(itemsJson): err is the message of the Error thrown,
\* "" when it returns items.  First the checks on the mapped items
CheckItems(items) ==
  IF \E i \in 1..Len(items) : items[i].t = "TypeError"
    THEN [err |-> "TypeError", items |-> <<>>]
  ELSE IF Len(items) = 0
    THEN [err |-> "Please add at least one item.", items |-> <<>>]
  ELSE IF ~\E i \in 1..Len(items) : HasName(items[i])
    THEN [err |-> "Please provide item name.", items |-> <<>>]
  ELSE [err |-> "", items |-> SelectSeq(items, HasName)]

\* A variant of parseItems: a payload that is no array is malformed
parseItemsStrict(itemsJson) ==
  IF itemsJson.kind # "array" /\ itemsJson.kind # "absent"
  THEN [err |-> "Invalid item data in request.", items |-> <<>>]
  ELSE CheckItems(MapCalculateItem(itemsJson.elems))

parseItems(itemsJson) ==
  IF itemsJson.kind = "malformed"
  THEN [err |-> "Invalid item data in request.", items |-> <<>>]
  ELSE CheckItems(MapCalculateItem(IF itemsJson.kind = "array" THEN itemsJson.elems ELSE <<>>))

(***************************************************************************)
(* Literals for the inputs of the model.                                   *)
(***************************************************************************)
\* The number literal with digits n, `scale` of them after the point
Dec(n, scale) == JNum(DFromDecimal(0, BigFromNat(n), scale))
Neg(n, scale) == JNum(DFromDecimal(1, BigFromNat(n), scale))

\* 1.7976931348623157e308, the largest double: its product with 10 is Infinity
Huge == JNum([k |-> "fin", s |-> 0, m |-> BigSub(BigShl(BigOne, MantBits), BigOne), e |-> MaxExp])

Abc == JStr(<<"a", "b", "c">>)
Panel == JStr(<<"P", "a", "n", "e", "l">>)

NamedItem(qty, unitPrice, gstRate) ==
  [EmptyItem EXCEPT !.name = Panel, !.qty = qty, !.unit_price = unitPrice,
                    !.gst_rate = gstRate]

(***************************************************************************)
(* Saving a quotation.  Strings are sequences of characters.               *)
(***************************************************************************)
Chars(n) ==
  CASE n = 0 -> "0" [] n = 1 -> "1" [] n = 2 -> "2" [] n = 3 -> "3" [] n = 4 -> "4"
    [] n = 5 -> "5" [] n = 6 -> "6" [] n = 7 -> "7" [] n = 8 -> "8" [] n = 9 -> "9"

\* String(n) for a natural number n
RECURSIVE NatToString(_)
NatToString(n) ==
  IF n < 10 THEN <<Chars(n)>> ELSE NatToString(n \div 10) \o <<Chars(n % 10)>>

\* str.padStart(targetLength, '0')
RECURSIVE PadStart(_, _)
PadStart(str, targetLength) ==
  IF Len(str) >= targetLength THEN str ELSE PadStart(<<"0">> \o str, targetLength)

\* The digits of str as a number
RECURSIVE StringToNat(_, _)
StringToNat(str, acc) ==
  IF str = <<>> THEN acc ELSE StringToNat(Tail(str), 10 * acc + DigitVal[Head(str)])

\* new Date(quoteDate).getFullYear() for a date "YYYY-MM-DD": the string is
\* read as midnight UTC and the year is taken in local time, which is still
\* the day before where local time is behind UTC
TimeZones == {"behind UTC", "UTC or ahead"}

GetFullYear(quoteDate, zone) ==
  IF zone = "behind UTC" /\ SubSeq(quoteDate, 5, 10) = <<"-", "0", "1", "-", "0", "1">>
  THEN StringToNat(SubSeq(quoteDate, 1, 4), 0) - 1
  ELSE StringToNat(SubSeq(quoteDate, 1, 4), 0)

\* A variant of generateQuoteNumber: the id is left out of the number
generateQuoteNumberOfYear(id, quoteDate, zone) ==
  <<"Q", "-">> \o NatToString(GetFullYear(quoteDate, zone)) \o <<"-">>
    \o PadStart(<<>>, 4)

\* async function generateQuoteNumber(id, quoteDate)
generateQuoteNumber(id, quoteDate, zone) ==
  <<"Q", "-">> \o NatToString(GetFullYear(quoteDate, zone)) \o <<"-">>
    \o PadStart(NatToString(id), 4)

\* The value of an integral number below Base, as Number(quoteId) is used
\* for a row id
DToNat(x) ==
  IF x.k # "fin" \/ x.m = <<>> \/ x.s = 1 THEN 0
  ELSE IF x.e > 0 \/ BigShl(BigShr(x.m, -x.e), -x.e) # x.m \/ Len(BigShr(x.m, -x.e)) > 1 THEN 0
  ELSE BigShr(x.m, -x.e)[1]

(***************************************************************************)
(* Request bodies.  Two bodies are valid and differ in every stored field; *)
(* the others are rejected by the validation of saveQuote.                 *)
(***************************************************************************)
Str(chars) == JStr(chars)

Date2024 == <<"2", "0", "2", "4", "-", "0", "3", "-", "1", "5">>
Date2025 == <<"2", "0", "2", "5", "-", "0", "1", "-", "0", "1">>

Inverter == JStr(<<"I", "n", "v">>)
Blank == JStr(<<" ", " ">>)

PanelLine == NamedItem(Dec(2, 0), Dec(100, 0), Dec(18, 0))
InverterLine ==
  [EmptyItem EXCEPT !.name = Inverter, !.product_id = Dec(7, 0), !.qty = Dec(25, 1),
                    !.unit_price = Dec(3333, 2), !.gst_rate = Dec(28, 0)]
CableLine == NamedItem(Dec(1, 0), Dec(335, 3), Dec(3, 0))
BlankLine == [EmptyItem EXCEPT !.name = Blank, !.qty = Dec(1, 0), !.unit_price = Dec(10, 0)]

Bodies ==
  [A |-> [items_json |-> ItemsJson("array", <<PanelLine, BlankLine, InverterLine>>),
          quote_date |-> Str(Date2024), customer_name |-> Str(<<" ", "A", "c", "m", "e">>),
          notes |-> Str(<<"n">>)],
   B |-> [items_json |-> ItemsJson("array", <<CableLine>>),
          quote_date |-> Str(Date2025), customer_name |-> Str(<<"B", "o", "b">>),
          notes |-> Undefined],
   malformed |-> [items_json |-> ItemsJson("malformed", <<>>),
          quote_date |-> Str(Date2024), customer_name |-> Str(<<"B", "o", "b">>),
          notes |-> Undefined],
   noItems |-> [items_json |-> ItemsJson("absent", <<>>),
          quote_date |-> Str(Date2024), customer_name |-> Str(<<"B", "o", "b">>),
          notes |-> Undefined],
   noName |-> [items_json |-> ItemsJson("array", <<BlankLine>>),
          quote_date |-> Str(Date2024), customer_name |-> Str(<<"B", "o", "b">>),
          notes |-> Undefined],
   noCustomer |-> [items_json |-> ItemsJson("array", <<CableLine>>),
          quote_date |-> Str(Date2025), customer_name |-> Blank,
          notes |-> Undefined]]

BodyNames == DOMAIN Bodies

\* The :id of the request path: absent for POST /quotes
QuoteIdInputs == {Undefined, JStr(<<"1">>), JStr(<<"2">>), JStr(<<"x">>)}

\* The date of the request's day, for a body without quote_date
Today == Date2025

\* A variant of RequireCustomer: the customer name is not checked
RequireCustomerUnchecked(parsed, summary, body, customerName) ==
  [err |-> parsed.err,
   items |-> parsed.items,
   subtotal |-> summary.subtotal, cgstTotal |-> summary.cgstTotal,
   sgstTotal |-> summary.sgstTotal, total |-> summary.total,
   quoteDate |-> OrElse(body.quote_date, JStr(Today)).s,
   customerName |-> customerName,
   notes |-> OrElse(body.notes, Null)]

\* saveQuote up to its first await: what it derives from the body, and in
\* err the message of the Error it throws ("" when it goes on to persist)
RequireCustomer(parsed, summary, body, customerName) ==
  [err |-> IF parsed.err # "" THEN parsed.err
           ELSE IF customerName = <<>> THEN "Customer name is required."
           ELSE "",
   items |-> parsed.items,
   subtotal |-> summary.subtotal, cgstTotal |-> summary.cgstTotal,
   sgstTotal |-> summary.sgstTotal, total |-> summary.total,
   quoteDate |-> OrElse(body.quote_date, JStr(Today)).s,
   customerName |-> customerName,
   notes |-> OrElse(body.notes, Null)]

SummarizeBody(parsed, body) ==
  RequireCustomer(parsed, buildQuoteSummary(parsed.items), body,
                  Trim(NameString(OrElse(body.customer_name, JStr(<<>>)))))

ValidateBody(body) == SummarizeBody(parseItems(body.items_json), body)

Validated == [b \in BodyNames |-> ValidateBody(Bodies[b])]

(***************************************************************************)
(* The database: the committed rows of quotes (by id; id 0 marks a row     *)
(* that does not exist) and of quote_items (by quote_id, in insertion      *)
(* order), and the AUTO_INCREMENT counter of quotes.  conn[p] is the       *)
(* connection of save p: whether a transaction is open on it, and the rows *)
(* of its quotation as the transaction has written them so far.  A row     *)
(* written in an open transaction is locked until commit or rollback.      *)
(* proc[p] is the position of save p in saveQuote, with its local values.  *)
(***************************************************************************)
VARIABLES quotes, quote_items, nextId, conn, proc, calls, calc, doc

sysvars == <<quotes, quote_items, nextId, conn, proc, calls>>
vars == <<quotes, quote_items, nextId, conn, proc, calls, calc, doc>>

MaxId == 2
MaxCalls == 3
Procs == {1, 2}
Ids == 1..MaxId

NoRow ==
  [id |-> 0, quote_no |-> Null, quote_date |-> <<>>, customer_name |-> <<>>,
   notes |-> Null, subtotal |-> DZero(0), cgst_total |-> DZero(0),
   sgst_total |-> DZero(0), total |-> DZero(0)]

ClosedConn == [open |-> FALSE, wrote |-> FALSE, row |-> NoRow, items |-> <<>>]

IdleProc ==
  [pc |-> "done", body |-> "A", quoteId |-> Undefined, finalQuoteId |-> 0,
   existingQuoteNo |-> Null, i |-> 0, error |-> "", result |-> "none",
   raced |-> FALSE]

\* No PDF document is being written
IdleDoc ==
  [route |-> "none", found |-> FALSE, company |-> <<0, 0, 0, 0, 0>>,
   nItems |-> 0, tableTop |-> 0, notes |-> FALSE, section |-> 0, sectionY |-> 0,
   pc |-> "none", title |-> "", drawTitleOnNewPage |-> TRUE, rows |-> <<>>,
   startY |-> 0, y |-> 0, i |-> 0, ret |-> 0, pages |-> <<>>]

InitSystem ==
  /\ quotes = [id \in Ids |-> NoRow]
  /\ quote_items = [id \in Ids |-> <<>>]
  /\ nextId = 1
  /\ conn = [p \in Procs |-> ClosedConn]
  /\ proc = [p \in Procs |-> IdleProc]
  /\ calls = 0

\* The row of id and its items as save p sees them when it writes
CurrentRow(p, id) ==
  IF conn[p].wrote THEN conn[p].row ELSE IF id \in Ids THEN quotes[id] ELSE NoRow
CurrentItems(p, id) ==
  IF conn[p].wrote THEN conn[p].items ELSE IF id \in Ids THEN quote_items[id] ELSE <<>>

\* Another open transaction has written the rows of id
LockedByOther(p, id) ==
  \E q \in Procs \ {p} : conn[q].open /\ conn[q].wrote /\ proc[q].finalQuoteId = id

\* A statement of save p leaves row and items for id: inside the open
\* transaction, or at once when no transaction is open (autocommit)
Write(p, id, row, items) ==
  /\ ~LockedByOther(p, id)
  /\ IF conn[p].open
     THEN /\ conn' = [conn EXCEPT ![p] = [open |-> TRUE, wrote |-> TRUE,
                                          row |-> row, items |-> items]]
          /\ UNCHANGED <<quotes, quote_items>>
     ELSE /\ quotes' = [quotes EXCEPT ![id] = row]
          /\ quote_items' = [quote_items EXCEPT ![id] = items]
          /\ UNCHANGED conn

Goto(p, pc) == proc' = [proc EXCEPT ![p].pc = pc]

\* The values of the header columns that both INSERT and UPDATE set
WithHeader(row, v) ==
  [row EXCEPT !.quote_date = v.quoteDate, !.customer_name = v.customerName,
              !.notes = v.notes, !.subtotal = v.subtotal,
              !.cgst_total = v.cgstTotal, !.sgst_total = v.sgstTotal,
              !.total = v.total]

\* The values of one INSERT INTO quote_items
ItemRow(item) ==
  [product_id |-> OrElse(item.product_id, Null), name |-> item.name,
   description |-> OrElse(item.description, Null), hsn |-> OrElse(item.hsn, Null),
   unit |-> OrElse(item.unit, Null), qty |-> item.qty.n,
   unit_price |-> item.unit_price.n, gst_rate |-> item.gst_rate.n,
   taxable |-> item.taxable.n, cgst |-> item.cgst.n, sgst |-> item.sgst.n,
   total |-> item.total.n]

(***************************************************************************)
(* async function saveQuote({ body, quoteId }), one action per await.      *)
(***************************************************************************)
Local(p) == Validated[proc[p].body]

\* let finalQuoteId = Number(quoteId || 0)
FinalQuoteId(quoteId) == ToNumber(OrElse(quoteId, JNum(DZero(0))))

\* if (!finalQuoteId): the save inserts a new quotation
IsCreate(p) == ~Truthy(JNum(FinalQuoteId(proc[p].quoteId)))

\* A variant of NeedsQuoteNo: the number is generated at every edit
NeedsQuoteNoAlways(existingQuoteNo) == TRUE

\* if (!existingQuote.quote_no)
NeedsQuoteNo(existingQuoteNo) == ~Truthy(existingQuoteNo)

\* The call, up to `await pool.getConnection()`: the body is validated and
\* an Error thrown here rejects the save at once
SaveQuoteCall(p) ==
  /\ proc[p].pc = "done"
  /\ calls < MaxCalls
  /\ calls' = calls + 1
  /\ \E b \in BodyNames, quoteId \in QuoteIdInputs :
       proc' = [proc EXCEPT ![p] =
                  [IdleProc EXCEPT !.body = b, !.quoteId = quoteId,
                                   !.pc = IF Validated[b].err # "" THEN "done"
                                          ELSE "getConnection",
                                   !.result = IF Validated[b].err # ""
                                              THEN Validated[b].err ELSE "pending"]]
  /\ UNCHANGED <<quotes, quote_items, nextId, conn, calc, doc>>

\* const connection = await pool.getConnection()
GetConnection(p) ==
  /\ proc[p].pc = "getConnection"
  /\ Goto(p, "begin")
  /\ UNCHANGED <<quotes, quote_items, nextId, conn, calls, calc, doc>>

\* A variant of BeginTransaction: no transaction is begun
BeginTransactionOmitted(p) ==
  /\ proc[p].pc = "begin"
  /\ proc' = [proc EXCEPT ![p].pc = IF IsCreate(p) THEN "insert" ELSE "select",
                          ![p].finalQuoteId = DToNat(FinalQuoteId(proc[p].quoteId))]
  /\ UNCHANGED <<quotes, quote_items, nextId, conn, calls, calc, doc>>

\* await connection.beginTransaction(), and the choice of the path
BeginTransaction(p) ==
  /\ proc[p].pc = "begin"
  /\ conn' = [conn EXCEPT ![p].open = TRUE]
  /\ proc' = [proc EXCEPT ![p].pc = IF IsCreate(p) THEN "insert" ELSE "select",
                          ![p].finalQuoteId = DToNat(FinalQuoteId(proc[p].quoteId))]
  /\ UNCHANGED <<quotes, quote_items, nextId, calls, calc, doc>>

\* INSERT INTO quotes ... with quote_no null; finalQuoteId = insertId
InsertQuote(p) ==
  /\ proc[p].pc = "insert"
  /\ nextId <= MaxId
  /\ Write(p, nextId, WithHeader([NoRow EXCEPT !.id = nextId], Local(p)), <<>>)
  /\ nextId' = nextId + 1
  /\ proc' = [proc EXCEPT ![p].pc = "setQuoteNo", ![p].finalQuoteId = nextId]
  /\ UNCHANGED <<calls, calc, doc>>

\* SELECT id, quote_no FROM quotes WHERE id = ?, a read of the committed rows
SelectExisting(p) ==
  /\ proc[p].pc = "select"
  /\ LET id == proc[p].finalQuoteId
         existingQuote == IF id \in Ids THEN quotes[id] ELSE NoRow
     IN  proc' = [proc EXCEPT ![p] =
                    IF existingQuote.id = 0
                    THEN [@ EXCEPT !.pc = "catch", !.error = "Quote not found."]
                    ELSE [@ EXCEPT !.pc = "update",
                                   !.existingQuoteNo = existingQuote.quote_no]]
  /\ UNCHANGED <<quotes, quote_items, nextId, conn, calls, calc, doc>>

\* UPDATE quotes SET quote_date = ?, ... WHERE id = ?
UpdateQuote(p) ==
  /\ proc[p].pc = "update"
  /\ LET id == proc[p].finalQuoteId
     IN  Write(p, id,
               IF CurrentRow(p, id).id = 0 THEN CurrentRow(p, id)
               ELSE WithHeader(CurrentRow(p, id), Local(p)),
               CurrentItems(p, id))
  /\ Goto(p, IF NeedsQuoteNo(proc[p].existingQuoteNo) THEN "setQuoteNo" ELSE "delete")
  /\ UNCHANGED <<nextId, calls, calc, doc>>

\* generateQuoteNumber, then UPDATE quotes SET quote_no = ? WHERE id = ?
SetQuoteNo(p) ==
  /\ proc[p].pc = "setQuoteNo"
  /\ \E zone \in TimeZones :
       LET id == proc[p].finalQuoteId
           quoteNo == generateQuoteNumber(id, Local(p).quoteDate, zone)
       IN  Write(p, id,
                 IF CurrentRow(p, id).id = 0 THEN CurrentRow(p, id)
                 ELSE [CurrentRow(p, id) EXCEPT !.quote_no = JStr(quoteNo)],
                 CurrentItems(p, id))
  /\ proc' = [proc EXCEPT ![p].pc = IF IsCreate(p) THEN "items" ELSE "delete",
                          ![p].i = IF IsCreate(p) THEN 1 ELSE 0]
  /\ UNCHANGED <<nextId, calls, calc, doc>>

\* A variant of DeleteItems: the old items stay
DeleteItemsSkipped(p) ==
  /\ proc[p].pc = "delete"
  /\ proc' = [proc EXCEPT ![p].pc = "items", ![p].i = 1]
  /\ UNCHANGED <<quotes, quote_items, conn, nextId, calls, calc, doc>>

\* DELETE FROM quote_items WHERE quote_id = ?
DeleteItems(p) ==
  /\ proc[p].pc = "delete"
  /\ Write(p, proc[p].finalQuoteId, CurrentRow(p, proc[p].finalQuoteId), <<>>)
  /\ proc' = [proc EXCEPT ![p].pc = "items", ![p].i = 1]
  /\ UNCHANGED <<nextId, calls, calc, doc>>

\* One turn of `for (const item of items)`: INSERT INTO quote_items ...
InsertItem(p) ==
  /\ proc[p].pc = "items"
  /\ LET id == proc[p].finalQuoteId
     IN  Write(p, id, CurrentRow(p, id),
               Append(CurrentItems(p, id), ItemRow(Local(p).items[proc[p].i])))
  /\ proc' = [proc EXCEPT ![p].pc = IF proc[p].i = Len(Local(p).items)
                                    THEN "commit" ELSE "items",
                          ![p].i = proc[p].i + 1]
  /\ UNCHANGED <<nextId, calls, calc, doc>>

\* The saves that are inside `try` for the quotation that p commits
Overlapping(p) ==
  {q \in Procs \ {p} : /\ proc[q].pc \notin {"done", "getConnection", "begin"}
                       /\ proc[q].finalQuoteId = proc[p].finalQuoteId}

\* await connection.commit(); return finalQuoteId (and the release of the
\* connection): the rows the transaction wrote become the committed rows
Commit(p) ==
  /\ proc[p].pc = "commit"
  /\ IF conn[p].open /\ conn[p].wrote
     THEN /\ quotes' = [quotes EXCEPT ![proc[p].finalQuoteId] = conn[p].row]
          /\ quote_items' = [quote_items EXCEPT ![proc[p].finalQuoteId] = conn[p].items]
     ELSE UNCHANGED <<quotes, quote_items>>
  /\ conn' = [conn EXCEPT ![p] = ClosedConn]
  /\ proc' = [q \in Procs |->
                IF q = p THEN [proc[p] EXCEPT !.pc = "done", !.result = "ok",
                                              !.existingQuoteNo = IdleProc.existingQuoteNo,
                                              !.raced = @ \/ Overlapping(p) # {}]
                ELSE IF q \in Overlapping(p) THEN [proc[q] EXCEPT !.raced = TRUE]
                ELSE proc[q]]
  /\ UNCHANGED <<nextId, calls, calc, doc>>

AwaitedSteps ==
  {"getConnection", "begin", "insert", "select", "update", "setQuoteNo",
   "delete", "items", "commit"}

\* The awaited call rejects (connection loss, a constraint, a lock wait
\* timeout): inside `try` control passes to `catch`; getConnection is
\* outside it
QueryFails(p) ==
  /\ proc[p].pc \in AwaitedSteps
  /\ proc' = [proc EXCEPT ![p] =
                IF @.pc = "getConnection"
                THEN [@ EXCEPT !.pc = "done", !.result = "persistence failure"]
                ELSE [@ EXCEPT !.pc = "catch", !.error = "persistence failure"]]
  /\ UNCHANGED <<quotes, quote_items, nextId, conn, calls, calc, doc>>

\* A variant of Catch: what the transaction wrote is committed
CatchCommits(p) ==
  /\ proc[p].pc = "catch"
  /\ IF conn[p].open /\ conn[p].wrote
     THEN /\ quotes' = [quotes EXCEPT ![proc[p].finalQuoteId] = conn[p].row]
          /\ quote_items' = [quote_items EXCEPT ![proc[p].finalQuoteId] = conn[p].items]
     ELSE UNCHANGED <<quotes, quote_items>>
  /\ conn' = [conn EXCEPT ![p] = ClosedConn]
  /\ proc' = [proc EXCEPT ![p].pc = "done", ![p].result = proc[p].error]
  /\ UNCHANGED <<nextId, calls, calc, doc>>

\* catch (error) { await connection.rollback(); throw error } finally {
\* connection.release() }: what the transaction wrote is discarded
Catch(p) ==
  /\ proc[p].pc = "catch"
  /\ conn' = [conn EXCEPT ![p] = ClosedConn]
  /\ proc' = [proc EXCEPT ![p].pc = "done", ![p].result = proc[p].error,
                          ![p].error = IdleProc.error,
                          ![p].existingQuoteNo = IdleProc.existingQuoteNo]
  /\ UNCHANGED <<quotes, quote_items, nextId, calls, calc, doc>>

(***************************************************************************)
(* The pure functions, applied to inputs drawn from bounded sets.  calc    *)
(* is one call: op names the function, k / item / items hold its argument, *)
(* and once done is TRUE, r / ci / qs hold what it returned.               *)
(***************************************************************************)
MaxMilli == 2200
MaxItems == 3

QtyInputs ==
  {Undefined, Null, Abc, JStr(<<"2">>), Dec(0, 0), Dec(1, 0), Dec(2, 0),
   Dec(25, 1), Neg(1, 0), Huge}
PriceInputs ==
  {Undefined, Dec(0, 0), Dec(5, 3), Dec(335, 3), Dec(10, 0), Dec(3333, 2),
   Dec(100, 0)}
RateInputs == {Undefined, JStr(<<"1", "8">>), Dec(0, 0), Dec(3, 0), Dec(18, 0), Dec(28, 0)}

\* An item that already carries derived fields and every descriptive field
FullItem ==
  [t |-> "object", name |-> Panel, product_id |-> Dec(7, 0),
   description |-> Null, hsn |-> JStr(<<"8", "5", "4", "1">>),
   unit |-> JStr(<<"N", "o", "s">>), qty |-> Dec(2, 0),
   unit_price |-> Dec(100, 0), gst_rate |-> Dec(18, 0),
   taxable |-> Dec(999, 0), cgst |-> Dec(1, 0), sgst |-> Dec(2, 0),
   total |-> JStr(<<"x">>)]

CalcItems ==
  {NamedItem(q, p, g) : q \in QtyInputs, p \in PriceInputs, g \in RateInputs}
    \cup {FullItem, NullItem, EmptyItem}

\* The items the summaries are built from, before calculateItem
SummaryBase ==
  {NamedItem(Dec(1, 0), Dec(5, 3), Dec(0, 0)),
   NamedItem(Dec(1, 0), Dec(1, 1), Dec(18, 0)),
   NamedItem(Dec(1, 0), Dec(2, 1), Dec(18, 0)),
   NamedItem(Dec(2, 0), Dec(100, 0), Dec(18, 0))}

Calculated == {calculateItem(item) : item \in SummaryBase}

SummaryInputs == UNION {[1..n -> Calculated] : n \in 0..MaxItems}

IdleCalc ==
  [op |-> "none", k |-> 0, neg |-> FALSE, item |-> EmptyItem, items |-> <<>>,
   done |-> FALSE, r |-> DZero(0), ci |-> EmptyItem,
   qs |-> [subtotal |-> DZero(0), cgstTotal |-> DZero(0),
           sgstTotal |-> DZero(0), total |-> DZero(0)]]

\* The argument of a round2 call: k / 1000, or -0 when neg
Round2Arg(c) == DFromDecimal(IF c.neg THEN 1 ELSE 0, BigFromNat(c.k), 3)

InitCalc ==
  /\ InitSystem
  /\ doc = IdleDoc
  /\ calc \in {[IdleCalc EXCEPT !.op = "round2", !.k = k] : k \in 0..MaxMilli}
      \cup {[IdleCalc EXCEPT !.op = "round2", !.neg = TRUE]}
      \cup {[IdleCalc EXCEPT !.op = "calculateItem", !.item = item] : item \in CalcItems}
      \cup {[IdleCalc EXCEPT !.op = "buildQuoteSummary", !.items = items] :
              items \in SummaryInputs}

DoRound2 ==
  /\ calc.op = "round2" /\ ~calc.done
  /\ UNCHANGED <<sysvars, doc>>
  /\ calc' = [calc EXCEPT !.done = TRUE, !.r = round2(Round2Arg(calc))]

DoCalculateItem ==
  /\ calc.op = "calculateItem" /\ ~calc.done
  /\ UNCHANGED <<sysvars, doc>>
  /\ calc' = [calc EXCEPT !.done = TRUE, !.ci = calculateItem(calc.item)]

DoBuildQuoteSummary ==
  /\ calc.op = "buildQuoteSummary" /\ ~calc.done
  /\ UNCHANGED <<sysvars, doc>>
  /\ calc' = [calc EXCEPT !.done = TRUE, !.qs = buildQuoteSummary(calc.items)]

NextCalc == DoRound2 \/ DoCalculateItem \/ DoBuildQuoteSummary

SpecCalc == InitCalc /\ [][NextCalc]_vars

(***************************************************************************)
(* Properties of the pure functions, under SpecCalc.                       *)
(***************************************************************************)
Returned(op) == calc.op = op /\ calc.done

\* x >= 0
NonNegative(x) == x.k # "nan" /\ (x.s = 0 \/ DIsZero(x))

\* x and y are the same number (NaN being the same as NaN)
SameNumber(x, y) == DEq(x, y) \/ (x.k = "nan" /\ y.k = "nan")

DerivedFields == {"taxable", "cgst", "sgst", "total"}
NumericFields == {"qty", "unit_price", "gst_rate"}

ExpectedTaxable(item) == round2(DMul(item.qty.n, item.unit_price.n))
ExpectedTax(item, taxable) ==
  round2(DDiv(DMul(taxable, DDiv(item.gst_rate.n, Two)), Hundred))
ExpectedTotal(taxable, tax) == round2(DAdd(DAdd(taxable, tax), tax))

\* C7: for an item with numeric qty, unit_price and gst_rate, calculateItem
\* returns taxable = round2(qty * unit_price), cgst = sgst =
\* round2(taxable * (gst_rate / 2) / 100) from the rounded taxable, and
\* total = round2(taxable + cgst + sgst) from the rounded components; derived
\* fields supplied in the input are overwritten and every other field is
\* carried through unchanged.
C7CalculateItemFormulas ==
  (/\ Returned("calculateItem")
   /\ calc.item.t = "object"
   /\ \A f \in NumericFields : calc.item[f].t = "number")
    => /\ calc.ci.t = "object"
       /\ calc.ci.taxable = JNum(ExpectedTaxable(calc.item))
       /\ calc.ci.cgst = JNum(ExpectedTax(calc.item, calc.ci.taxable.n))
       /\ calc.ci.sgst = JNum(ExpectedTax(calc.item, calc.ci.taxable.n))
       /\ calc.ci.total = JNum(ExpectedTotal(calc.ci.taxable.n, calc.ci.cgst.n))
       /\ \A f \in ItemFields \ DerivedFields : calc.ci[f] = calc.item[f]

\* An item that came with taxable 999, cgst 1, sgst 2 and total "x": the
\* derived fields are recomputed (2 * 100 at 18%) and the rest is kept
C7Witness ==
  /\ Returned("calculateItem")
  /\ calc.item = FullItem
  /\ calc.ci.taxable = Dec(200, 0)
  /\ calc.ci.cgst = Dec(18, 0)
  /\ calc.ci.sgst = Dec(18, 0)
  /\ calc.ci.total = Dec(236, 0)
  /\ calc.ci.hsn = FullItem.hsn

\* A string that reads as a number
NumericString(s) == s # <<>> /\ \A i \in 1..Len(s) : IsDigit(s[i])
IsNumeric(v) == v.t = "number" \/ (v.t = "string" /\ NumericString(v.s))

\* C8: calculateItem always succeeds; a qty, unit_price or gst_rate that is
\* missing or not numeric is taken as 0, and the returned qty, unit_price,
\* gst_rate, taxable, cgst, sgst and total are finite numbers.
C8AlwaysFiniteNumbers ==
  Returned("calculateItem")
    => /\ calc.ci.t = "object"
       /\ \A f \in NumericFields \cup DerivedFields :
            calc.ci[f].t = "number" /\ DIsFinite(calc.ci[f].n)
       /\ \A f \in NumericFields :
            ~IsNumeric(calc.item[f]) => DIsZero(calc.ci[f].n)

\* k / 1000 rounded to cents, a third decimal of 5 or more going up
HalfUpCents(k) == (k + 5) \div 10

\* C9: for a non-negative value with at most 3 decimals, round2 is the
\* nearest multiple of 0.01, a third decimal of exactly 5 rounding up;
\* round2(0) = round2(-0) = 0.
C9Round2HalfUp ==
  Returned("round2")
    => DEq(calc.r, DFromDecimal(0, BigFromNat(HalfUpCents(calc.k)), 2))

\* items[1][field] + ... + items[n][field], added from the left, from 0
RECURSIVE SumUpTo(_, _, _)
SumUpTo(items, field, n) ==
  IF n = 0 THEN DZero(0) ELSE DAdd(SumUpTo(items, field, n - 1), items[n][field].n)

HalfPaisa == calculateItem(NamedItem(Dec(1, 0), Dec(5, 3), Dec(0, 0)))

Init == InitSystem /\ calc = IdleCalc /\ doc = IdleDoc

Next ==
  \E p \in Procs :
    \/ SaveQuoteCall(p)
    \/ GetConnection(p)
    \/ BeginTransaction(p)
    \/ InsertQuote(p)
    \/ SelectExisting(p)
    \/ UpdateQuote(p)
    \/ SetQuoteNo(p)
    \/ DeleteItems(p)
    \/ InsertItem(p)
    \/ Commit(p)
    \/ QueryFails(p)
    \/ Catch(p)

Spec == Init /\ [][Next]_vars

(***************************************************************************)
(* Properties of saveQuote, under Spec.                                    *)
(***************************************************************************)
QuoteNo(year, id) == JStr(<<"Q", "-">> \o year \o <<"-", "0", "0", "0">> \o id)

\* C1: once a quotation's quote_no has been assigned, no later save changes
\* it, whatever quote_date the save carries.
C1QuoteNoNeverChanges ==
  [][\A id \in Ids :
       Truthy(quotes[id].quote_no) => quotes'[id].quote_no = quotes[id].quote_no]_vars

\* Quotation 1 was numbered in 2025 and an edit has since dated it 2024
C1Witness ==
  /\ quotes[1].quote_no = QuoteNo(<<"2", "0", "2", "5">>, <<"1">>)
  /\ quotes[1].quote_date = Date2024
  /\ \E p \in Procs : /\ proc[p].pc = "done" /\ proc[p].result = "ok"
                      /\ proc[p].finalQuoteId = 1 /\ ~IsCreate(p)

\* The rows that the items of a save become
ItemRows(items) == [i \in 1..Len(items) |-> ItemRow(items[i])]

\* The persisted rows of id hold everything a save of body b writes
IsResultOf(row, items, b) ==
  /\ Validated[b].err = ""
  /\ row.id # 0
  /\ Truthy(row.quote_no)
  /\ row = WithHeader(row, Validated[b])
  /\ items = ItemRows(Validated[b].items)

\* C2: a step changes the persisted quotes or quote_items only when a save
\* commits, and then the rows of its quotation become all that the save
\* writes and no other row changes; a save in which a persistence step
\* failed leaves the persisted rows as they were.
C2SaveIsAtomic ==
  [][(quotes' # quotes \/ quote_items' # quote_items) =>
       \E p \in Procs :
         /\ proc[p].pc = "commit"
         /\ proc'[p].pc = "done" /\ proc'[p].result = "ok"
         /\ IsResultOf(quotes'[proc[p].finalQuoteId],
                       quote_items'[proc[p].finalQuoteId], proc[p].body)
         /\ \A id \in Ids \ {proc[p].finalQuoteId} :
              quotes'[id] = quotes[id] /\ quote_items'[id] = quote_items[id]]_vars

\* A new quotation whose save failed after the header and an item were
\* written: the id is used up and no row is persisted
C2Witness ==
  \E p \in Procs :
    /\ proc[p].pc = "done" /\ proc[p].result = "persistence failure"
    /\ IsCreate(p) /\ proc[p].finalQuoteId = 1 /\ proc[p].i >= 2
    /\ nextId > 1
    /\ quotes[1] = NoRow /\ quote_items[1] = <<>>

\* A persisted item, as buildQuoteSummary reads it
StoredItem(row) ==
  [EmptyItem EXCEPT !.taxable = JNum(row.taxable), !.cgst = JNum(row.cgst),
                    !.sgst = JNum(row.sgst)]

SummaryOfStored(items) ==
  buildQuoteSummary([i \in 1..Len(items) |-> StoredItem(items[i])])

\* The summaries of the item lists that the valid bodies persist
KnownSummaries ==
  [items \in {ItemRows(Validated[b].items) : b \in {"A", "B"}} |-> SummaryOfStored(items)]

StoredSummary(items) ==
  IF items \in DOMAIN KnownSummaries THEN KnownSummaries[items]
  ELSE SummaryOfStored(items)

TotalsMatchItems(row, items) ==
  /\ row.subtotal = StoredSummary(items).subtotal
  /\ row.cgst_total = StoredSummary(items).cgstTotal
  /\ row.sgst_total = StoredSummary(items).sgstTotal
  /\ row.total = StoredSummary(items).total

\* C3: for every persisted quotation the stored subtotal, cgst_total,
\* sgst_total and total are buildQuoteSummary of its persisted items.
C3TotalsMatchItems ==
  \A id \in Ids : quotes[id].id # 0 => TotalsMatchItems(quotes[id], quote_items[id])

\* Quotation 1, created in 2025 with one line, after an edit that left it the
\* two named lines of three submitted, and after a save that was rolled back
C3Witness ==
  /\ quotes[1].quote_no = QuoteNo(<<"2", "0", "2", "5">>, <<"1">>)
  /\ Len(quote_items[1]) = 2
  /\ quote_items[1][2].name = Inverter
  /\ \E p \in Procs : proc[p].result = "persistence failure"

\* A name with a character that is not white space
NonBlank(v) == v.t = "string" /\ \E i \in 1..Len(v.s) : v.s[i] \notin WhiteSpace

\* The body is one that saveQuote must reject
MustReject(body) ==
  \/ body.items_json.kind # "array"
  \/ \A i \in 1..Len(body.items_json.elems) : ~NonBlank(body.items_json.elems[i].name)
  \/ ~NonBlank(body.customer_name)

\* C4: a call of saveQuote with a body that fails validation ends at once
\* with the error, on the create and on the edit path: no connection is
\* taken and no persisted row, id counter or transaction changes.
C4RejectsBeforeWrites ==
  [][\A p \in Procs :
       (/\ proc[p].pc = "done"
        /\ calls' # calls
        /\ proc'[p] # proc[p]
        /\ MustReject(Bodies[proc'[p].body]))
         => /\ proc'[p].pc = "done"
            /\ proc'[p].result \notin {"ok", "pending", "none", "persistence failure"}
            /\ UNCHANGED <<quotes, quote_items, nextId, conn>>]_vars

\* An edit of the persisted quotation 1 rejected for its blank customer name
C4Witness ==
  \E p \in Procs :
    /\ proc[p].pc = "done" /\ proc[p].result = "Customer name is required."
    /\ proc[p].quoteId = JStr(<<"1">>)
    /\ quotes[1].id # 0

\* C5: when two saves of the same quotation ran at the same time and
\* committed, its persisted header, totals and items are all those of one
\* save, never the header of one with the items of the other.
C5LastWriteWins ==
  \A p \in Procs :
    (proc[p].pc = "done" /\ proc[p].result = "ok" /\ proc[p].raced)
      => \E b \in BodyNames :
           IsResultOf(quotes[proc[p].finalQuoteId], quote_items[proc[p].finalQuoteId], b)

\* Both handlers have committed overlapping edits of quotation 1, one with
\* each body
C5Witness ==
  /\ \A p \in Procs : /\ proc[p].pc = "done" /\ proc[p].result = "ok" /\ proc[p].raced
                      /\ proc[p].finalQuoteId = 1 /\ ~IsCreate(p)
  /\ proc[1].body = "A" /\ proc[2].body = "B"

(***************************************************************************)
(* parseItems, applied to payloads drawn from bounded sets.  Here calc is  *)
(* one call of parseItems: json is its argument, and once done is TRUE,    *)
(* out is what it did (err the message of the Error thrown, "" when it     *)
(* returned items).                                                        *)
(***************************************************************************)
MaxElems == 3

\* What JSON.parse returns for a payload that is valid JSON and no array
NonArrayKinds == {"object", "number", "string", "null", "true"}

\* An item whose name is not blank but has white space around it
SpacedName == JStr(<<" ", "I", "n", "v", " ">>)
SpacedItem == [EmptyItem EXCEPT !.name = SpacedName, !.qty = Dec(1, 0),
                                !.unit_price = Dec(335, 3), !.gst_rate = Dec(3, 0)]

\* The elements of the submitted arrays: items with a name, with a blank
\* name, with no name, and a JSON null
ElemInputs == {SpacedItem, PanelLine, BlankLine, EmptyItem, NullItem}

ItemsJsonInputs ==
  {ItemsJson("array", elems) : elems \in UNION {[1..n -> ElemInputs] : n \in 0..MaxElems}}
    \cup {ItemsJson(kind, <<>>) : kind \in NonArrayKinds \cup {"absent", "malformed"}}

IdleParse == [op |-> "parseItems", json |-> ItemsJson("absent", <<>>), done |-> FALSE,
              out |-> [err |-> "", items |-> <<>>]]

InitParse ==
  /\ InitSystem
  /\ doc = IdleDoc
  /\ calc \in {[IdleParse EXCEPT !.json = json] : json \in ItemsJsonInputs}

DoParseItems ==
  /\ calc.op = "parseItems" /\ ~calc.done
  /\ UNCHANGED <<sysvars, doc>>
  /\ calc' = [calc EXCEPT !.done = TRUE, !.out = parseItems(calc.json)]

NextParse == DoParseItems

SpecParse == InitParse /\ [][NextParse]_vars

(***************************************************************************)
(* Properties of parseItems, under SpecParse.                              *)
(***************************************************************************)
\* No element of the array has a name that is not blank
NoneNamed(elems) == \A i \in 1..Len(elems) : ~NonBlank(elems[i].name)

\* C11: parseItems fails with "Please add at least one item." for an empty
\* array, with "Invalid item data in request." for a payload that is not
\* JSON, and with "Please provide item name." for a non-empty array in
\* which no item has a name that is not blank.
C11ParseItemsErrors ==
  Returned("parseItems")
    => /\ calc.json.kind = "malformed" => calc.out.err = "Invalid item data in request."
       /\ (calc.json.kind = "array" /\ calc.json.elems = <<>>)
            => calc.out.err = "Please add at least one item."
       /\ (calc.json.kind = "array" /\ calc.json.elems # <<>> /\ NoneNamed(calc.json.elems))
            => calc.out.err = "Please provide item name."

\* C12 as claimed: valid JSON that is not an array fails as malformed input.
C12NonArrayIsMalformed ==
  (Returned("parseItems") /\ calc.json.kind \in NonArrayKinds)
    => calc.out.err = "Invalid item data in request."

\* C12: parseItems fails with "Please add at least one item.", the error of
\* the empty array, whenever the payload is valid JSON and not an array.
C12NonArrayIsNoItems ==
  (Returned("parseItems") /\ calc.json.kind \in NonArrayKinds)
    => calc.out = [err |-> "Please add at least one item.", items |-> <<>>]

\* The payload {} was parsed and rejected as having no items
C12Witness ==
  /\ Returned("parseItems")
  /\ calc.json.kind = "object"
  /\ calc.out.err = "Please add at least one item."

\* The elements with a name that is not blank, in their order
RECURSIVE NamedElems(_)
NamedElems(elems) ==
  IF elems = <<>> THEN <<>>
  ELSE IF NonBlank(Head(elems).name) THEN <<Head(elems)>> \o NamedElems(Tail(elems))
  ELSE NamedElems(Tail(elems))

\* C13: when parseItems returns, the result is the elements whose trimmed
\* name is not blank, in the order submitted, each as calculateItem returns
\* it, and it is not empty.
C13NamedItemsInOrder ==
  (Returned("parseItems") /\ calc.out.err = "")
    => /\ calc.out.items = MapCalculateItem(NamedElems(calc.json.elems))
       /\ calc.out.items # <<>>

\* The blank-named item between two named ones was dropped
C13Witness ==
  /\ Returned("parseItems")
  /\ calc.json.elems = <<SpacedItem, BlankLine, PanelLine>>
  /\ Len(calc.out.items) = 2
  /\ calc.out.items[1].name = SpacedName
  /\ calc.out.items[2].total = Dec(236, 0)

(***************************************************************************)
(* The proposal rows.  A template row and a submitted row are objects      *)
(* whose properties are JavaScript values, Undefined for a key the object  *)
(* does not have; a submitted element may also be a JSON null or a         *)
(* number.  The numbers of these rows are natural numbers.                 *)
(***************************************************************************)
\* function text(value)
text(value) ==
  IF value.t \in {"null", "undefined"} THEN <<>>
  ELSE IF value.t = "string" THEN value.s
  ELSE NatToString(DToNat(value.n))

\* function normalizeProposalTemplateRow(row, index)
normalizeProposalTemplateRow(row, index) ==
  [sr_no |-> text(OrElse(row.sr_no, Dec(index + 1, 0))),
   description |-> text(row.description),
   unit |-> text(row.unit),
   specification |-> text(row.specification),
   qty |-> text(row.qty),
   make |-> text(row.make)]

\* function getDefaultProposalItems(), for the proposalTemplate of the
\* configuration
getDefaultProposalItems(proposalTemplate) ==
  [i \in 1..Len(proposalTemplate) |->
     normalizeProposalTemplateRow(proposalTemplate[i], i - 1)]

EmptyRow == [t |-> "object", qty |-> Undefined, make |-> Undefined]

\* parsed[idx] || {}, idx counting from 0
SubmittedRow(parsed, idx) ==
  IF idx + 1 <= Len(parsed) /\ (parsed[idx + 1].t = "object" \/ Truthy(parsed[idx + 1]))
  THEN parsed[idx + 1] ELSE EmptyRow

\* Object.prototype.hasOwnProperty.call(row, key)
HasOwnProperty(row, key) == row.t = "object" /\ row[key].t # "undefined"

\* A variant of MergeRow: a submitted value is taken when it is truthy
MergeRowTruthy(baseRow, row) ==
  [baseRow EXCEPT !.qty = IF Truthy(row.qty) THEN text(row.qty) ELSE baseRow.qty,
                  !.make = IF Truthy(row.make) THEN text(row.make) ELSE baseRow.make]

\* The callback of defaults.map in parseProposalItems
MergeRow(baseRow, row) ==
  [sr_no |-> baseRow.sr_no,
   description |-> baseRow.description,
   unit |-> baseRow.unit,
   specification |-> baseRow.specification,
   qty |-> IF HasOwnProperty(row, "qty") THEN text(row.qty) ELSE baseRow.qty,
   make |-> IF HasOwnProperty(row, "make") THEN text(row.make) ELSE baseRow.make]

\* A variant of MergeRows: one row for each submitted element
MergeRowsSubmitted(defaults, parsed) ==
  [i \in 1..Len(parsed) |->
     MergeRow(IF i <= Len(defaults) THEN defaults[i] ELSE defaults[1], parsed[i])]

\* defaults.map((baseRow, idx) => ...)
MergeRows(defaults, parsed) ==
  [i \in 1..Len(defaults) |-> MergeRow(defaults[i], SubmittedRow(parsed, i - 1))]

\* function parseProposalItems(proposalItemsJson), for the proposalTemplate
\* of the configuration; a proposalItemsJson that is absent, not JSON or no
\* array leaves parsed = []
parseProposalItems(proposalTemplate, proposalItemsJson) ==
  IF Len(getDefaultProposalItems(proposalTemplate)) = 0 THEN <<>>
  ELSE MergeRows(getDefaultProposalItems(proposalTemplate),
                 IF proposalItemsJson.kind = "array" THEN proposalItemsJson.elems
                 ELSE <<>>)

MaxTemplate == 2
MaxSubmitted == 3

TemplateRow(sr_no, description, qty, make) ==
  [sr_no |-> sr_no, description |-> description, unit |-> JStr(<<"p", "c", "s">>),
   specification |-> JStr(<<"4", "5", "0", "W">>), qty |-> qty, make |-> make]

\* Template rows: with a numeric sr_no, with a string sr_no and no default
\* qty, and with no sr_no
TemplateRows ==
  {TemplateRow(Dec(1, 0), Panel, JStr(<<"1">>), JStr(<<"B", "r", "a", "n", "d">>)),
   TemplateRow(JStr(<<"A">>), Inverter, Undefined, Null),
   TemplateRow(Undefined, Undefined, Dec(2, 0), JStr(<<"M">>))}

Templates == UNION {[1..n -> TemplateRows] : n \in 0..MaxTemplate}

\* Submitted elements: both keys, qty only as a number, make null, no key,
\* a JSON null and a number
SubmittedRows ==
  {[t |-> "object", qty |-> JStr(<<"5">>), make |-> JStr(<<"X">>)],
   [t |-> "object", qty |-> Dec(7, 0), make |-> Undefined],
   [t |-> "object", qty |-> Undefined, make |-> Null],
   EmptyRow,
   [EmptyRow EXCEPT !.t = "null"],
   [t |-> "number", n |-> DFromNat(3), s |-> <<>>, qty |-> Undefined, make |-> Undefined]}

ProposalJsonInputs ==
  {ItemsJson("array", elems) :
     elems \in UNION {[1..n -> SubmittedRows] : n \in 0..MaxSubmitted}}
    \cup {ItemsJson(kind, <<>>) : kind \in NonArrayKinds \cup {"absent", "malformed"}}

InitProposal ==
  /\ InitSystem
  /\ doc = IdleDoc
  /\ calc \in {[op |-> "parseProposalItems", template |-> template, json |-> json,
                done |-> FALSE, rows |-> <<>>] :
                 template \in Templates, json \in ProposalJsonInputs}

DoParseProposalItems ==
  /\ calc.op = "parseProposalItems" /\ ~calc.done
  /\ UNCHANGED <<sysvars, doc>>
  /\ calc' = [calc EXCEPT !.done = TRUE,
                          !.rows = parseProposalItems(calc.template, calc.json)]

NextProposal == DoParseProposalItems

SpecProposal == InitProposal /\ [][NextProposal]_vars

(***************************************************************************)
(* Properties of parseProposalItems, under SpecProposal.                   *)
(***************************************************************************)
\* C14: for every template and every submission (an array of any length,
\* JSON that is no array, text that is not JSON, absent) parseProposalItems
\* returns as many rows as the template has.
C14OneRowPerTemplateRow ==
  Returned("parseProposalItems") => Len(calc.rows) = Len(calc.template)

\* Three elements were submitted for a template of one row
C14Witness ==
  /\ Returned("parseProposalItems")
  /\ Len(calc.template) = 1
  /\ calc.json.kind = "array" /\ Len(calc.json.elems) = 3
  /\ Len(calc.rows) = 1

\* The submitted element for template row i has the key
Submits(json, i, key) ==
  /\ json.kind = "array"
  /\ i <= Len(json.elems)
  /\ json.elems[i].t = "object"
  /\ json.elems[i][key].t # "undefined"

Created(p) == proc[p].pc = "done" /\ proc[p].result = "ok" /\ IsCreate(p)

\* C16: the quote_no of a newly created quotation is "Q-", the four digits
\* of the year of its quote_date, "-", and its id padded with zeros to four
\* digits.
C16QuoteNoOfYearAndId ==
  \A p \in Procs :
    Created(p)
      => quotes[proc[p].finalQuoteId].quote_no
           = JStr(<<"Q", "-">> \o SubSeq(Local(p).quoteDate, 1, 4) \o <<"-">>
                    \o PadStart(NatToString(proc[p].finalQuoteId), 4))

\* The :id of the request names a persisted quotation
NamesQuote(quoteId) ==
  \E id \in Ids : quotes[id].id = id /\ quoteId = JStr(NatToString(id))

\* C17, for the save: a save with the id of a quotation that does not exist,
\* when its body is valid and no persistence step fails, ends with the error
\* "Quote not found.", which is none of the validation errors.
C17MissingQuoteNotFound ==
  \A p \in Procs :
    (/\ proc[p].pc = "done"
     /\ proc[p].quoteId # Undefined
     /\ ~NamesQuote(proc[p].quoteId)
     /\ proc[p].result \notin {"none", "persistence failure"}
     /\ Validated[proc[p].body].err = "")
      => /\ proc[p].result = "Quote not found."
         /\ \A b \in BodyNames : Validated[b].err # "Quote not found."

(***************************************************************************)
(* The PDF.  doc is the PDFDocument and the position of the code that      *)
(* writes it.  Lengths are in hundredths of a point.  pages is the         *)
(* sequence of the document's pages, the last one being the current page   *)
(* (addPage appends a page and makes it current); a page is the sequence   *)
(* of what drawTable drew on it, in the order drawn: for each title bar,    *)
(* header row and data row the table it belongs to, its top y and its      *)
(* height h.  The height of a cell's text is what doc.heightOfString        *)
(* answers for it: an input of the model.                                  *)
(***************************************************************************)
\* new PDFDocument({ margin: 40, size: 'A4' }): doc.page.height and the
\* margins
PageHeight == 84189
Margin == 4000

\* const headerHeight = 24, and the height of a title bar
HeaderHeight == 2400
\* Math.max(24, ...) and cellHeight + 8
MinRowHeight == 2400
CellPadding == 800

\* const pageBottom = doc.page.height - doc.page.margins.bottom
PageBottom == PageHeight - Margin

\* const titleHeight = title ? 24 : 0
TitleHeight(title) == IF title # "" THEN HeaderHeight ELSE 0

\* const rowHeight = Math.max(24, ...cellHeight + 8), for the tallest cell
RowHeight(cellHeight) ==
  IF cellHeight + CellPadding > MinRowHeight THEN cellHeight + CellPadding
  ELSE MinRowHeight

\* doc.heightOfString(value, ...) of the tallest cell of a row: one line of
\* text, a paragraph, and a text that is taller than a page
CellHeights == {1200, 30000, 80000}

\* The drawing calls at the cursor: what is drawn goes on the current page
Draw(st, title, kind, h) ==
  [pages |-> [st.pages EXCEPT ![Len(st.pages)] =
                Append(@, [table |-> title, kind |-> kind, y |-> st.y, h |-> h])],
   y |-> st.y + h]

\* function drawTitleRow(textValue)
drawTitleRow(st, title) == Draw(st, title, "title", TitleHeight(title))

\* function drawHeaderRow()
drawHeaderRow(st, title) == Draw(st, title, "header", HeaderHeight)

\* doc.addPage(); y = doc.page.margins.top
AddPage(st) == [pages |-> Append(st.pages, <<>>), y |-> Margin]

\* doc.addPage(); y = top; if (title && drawTitleOnNewPage) drawTitleRow(title)
BreakWithTitle(st, title, drawTitleOnNewPage) ==
  IF title # "" /\ drawTitleOnNewPage THEN drawTitleRow(AddPage(st), title)
  ELSE AddPage(st)

\* A variant of BreakBeforeRow: the page is broken, nothing is repeated
BreakBeforeRowBare(st, title, drawTitleOnNewPage, rowHeight) ==
  IF st.y + rowHeight > PageBottom THEN AddPage(st) ELSE st

\* if (y + rowHeight > pageBottom) { addPage, title, drawHeaderRow() }
BreakBeforeRow(st, title, drawTitleOnNewPage, rowHeight) ==
  IF st.y + rowHeight > PageBottom
  THEN drawHeaderRow(BreakWithTitle(st, title, drawTitleOnNewPage), title)
  ELSE st

\* The cursor of drawTable and the pages
Cursor == [pages |-> doc.pages, y |-> doc.y]

\* if (title) { if (y + titleHeight + headerHeight > pageBottom) { addPage }
\* drawTitleRow(title) }
DrawTableTitle ==
  /\ doc.pc = "title"
  /\ LET st == IF doc.title = "" THEN Cursor
               ELSE drawTitleRow(IF doc.y + TitleHeight(doc.title) + HeaderHeight > PageBottom
                                 THEN AddPage(Cursor) ELSE Cursor,
                                 doc.title)
     IN  doc' = [doc EXCEPT !.pc = "header", !.pages = st.pages, !.y = st.y]
  /\ UNCHANGED <<sysvars, calc>>

\* if (y + headerHeight > pageBottom) { addPage, title } drawHeaderRow()
DrawTableHeader ==
  /\ doc.pc = "header"
  /\ LET st == drawHeaderRow(IF doc.y + HeaderHeight > PageBottom
                             THEN BreakWithTitle(Cursor, doc.title, doc.drawTitleOnNewPage)
                             ELSE Cursor,
                             doc.title)
     IN  doc' = [doc EXCEPT !.pc = "rows", !.pages = st.pages, !.y = st.y, !.i = 1]
  /\ UNCHANGED <<sysvars, calc>>

\* One turn of rows.forEach: the break when the row does not fit, the cells
\* of the row, y += rowHeight
DrawTableRow ==
  /\ doc.pc = "rows"
  /\ doc.i <= Len(doc.rows)
  /\ LET rowHeight == RowHeight(doc.rows[doc.i])
         st == Draw(BreakBeforeRow(Cursor, doc.title, doc.drawTitleOnNewPage, rowHeight),
                    doc.title, "row", rowHeight)
     IN  doc' = [doc EXCEPT !.pages = st.pages, !.y = st.y, !.i = doc.i + 1]
  /\ UNCHANGED <<sysvars, calc>>

\* return y
DrawTableReturn ==
  /\ doc.pc = "rows"
  /\ doc.i > Len(doc.rows)
  /\ doc' = [doc EXCEPT !.pc = "returned", !.ret = doc.y]
  /\ UNCHANGED <<sysvars, calc>>

(***************************************************************************)
(* GET /quotes/:id/pdf.  company holds the numbers of rows of the five     *)
(* tables of config/company.json, in the order in which the route draws    *)
(* them; the rows of the first table are parseProposalItems' rows, one per  *)
(* row of the proposal template.  tableTop is doc.y + 10 after the letter   *)
(* head and the customer's lines.                                         *)
(***************************************************************************)
\* const itemStartY = tableTop + 20; y += 20
ItemLine == 2000
\* if (y > 700) { doc.addPage(); y = 60; }
ItemBreakY == 70000
ItemTopY == 6000
\* let sectionY = y + 100
SectionOffset == 10000
\* if (sectionY > doc.page.height - 100)
NotesRoom == 10000

\* The title of each drawTable call of the route
SectionTitles ==
  <<"ITEMS CONSIDERED FOR PROPOSAL", "Estimated Other Charges", "Scope Of Work",
    "Terms & Conditions", "Warrantee">>

\* drawTable(...) + 12, and + 10 after the last table
SectionGap(section) == IF section = Len(SectionTitles) THEN 1000 ELSE 1200

\* if (customerScopeRows.length): the only table drawn on a condition
SectionDrawn(company, section) == section # 3 \/ company[3] # 0

\* items.forEach: the page break of the item lines and y += 20
RECURSIVE ItemLines(_, _)
ItemLines(st, n) ==
  IF n = 0 THEN st
  ELSE ItemLines(IF st.y > ItemBreakY
                 THEN [pages |-> Append(st.pages, <<>>), y |-> ItemTopY + ItemLine]
                 ELSE [pages |-> st.pages, y |-> st.y + ItemLine],
                 n - 1)

\* const [[quote]] = await pool.query(...); if (!quote) 404;
\* const doc = new PDFDocument(...)
PdfLookup ==
  /\ doc.route = "lookup"
  /\ doc' = IF doc.found THEN [doc EXCEPT !.route = "items", !.pages = << <<>> >>]
            ELSE [doc EXCEPT !.route = "notfound"]
  /\ UNCHANGED <<sysvars, calc>>

\* The item lines and the totals; let sectionY = y + 100
PdfItems ==
  /\ doc.route = "items"
  /\ LET st == ItemLines([pages |-> doc.pages, y |-> doc.tableTop + ItemLine], doc.nItems)
     IN  doc' = [doc EXCEPT !.route = "section", !.section = 1, !.pages = st.pages,
                            !.sectionY = st.y + SectionOffset]
  /\ UNCHANGED <<sysvars, calc>>

\* The next drawTable call of the route: its title, startY: sectionY and its
\* rows, of which the heights of the text are doc.heightOfString's answers
PdfSection ==
  /\ doc.route = "section"
  /\ doc.pc = "none"
  /\ doc.section <= Len(SectionTitles)
  /\ IF SectionDrawn(doc.company, doc.section)
     THEN \E rows \in [1..doc.company[doc.section] -> CellHeights] :
            doc' = [doc EXCEPT !.pc = "title", !.title = SectionTitles[doc.section],
                               !.drawTitleOnNewPage = TRUE, !.rows = rows,
                               !.startY = doc.sectionY, !.y = doc.sectionY, !.i = 0]
     ELSE doc' = [doc EXCEPT !.section = doc.section + 1]
  /\ UNCHANGED <<sysvars, calc>>

\* sectionY = drawTable(...) + 12
PdfSectionDone ==
  /\ doc.route = "section"
  /\ doc.pc = "returned"
  /\ doc' = [doc EXCEPT !.pc = "none", !.section = doc.section + 1,
                        !.sectionY = doc.ret + SectionGap(doc.section)]
  /\ UNCHANGED <<sysvars, calc>>

\* if (quote.notes) { if (sectionY > doc.page.height - 100) { addPage } }
\* doc.end()
PdfEnd ==
  /\ doc.route = "section"
  /\ doc.pc = "none"
  /\ doc.section > Len(SectionTitles)
  /\ doc' = IF doc.notes /\ doc.sectionY > PageHeight - NotesRoom
            THEN [doc EXCEPT !.route = "ended", !.pages = Append(doc.pages, <<>>),
                             !.sectionY = Margin]
            ELSE [doc EXCEPT !.route = "ended"]
  /\ UNCHANGED <<sysvars, calc>>

(***************************************************************************)
(* drawTable applied to tables, and the route applied to quotations        *)
(***************************************************************************)
MaxRows == 3
MaxLines == 2

\* Where a table starts: the top of the page, the middle, a place with room
\* for a title and a header and no more, the place where a header ends at
\* the bottom bound, a place with no room for a header, and below the page
StartYs == {Margin, 40000, PageBottom - 2 * HeaderHeight, PageBottom - HeaderHeight,
            PageBottom - 1000, 82000}

\* Tables: drawTable called on the first page of a document
Tables ==
  {[IdleDoc EXCEPT !.pc = "title", !.title = title, !.drawTitleOnNewPage = again,
                   !.rows = rows, !.startY = startY, !.y = startY,
                   !.pages = << <<>> >>] :
     title \in {"", SectionTitles[1]}, again \in BOOLEAN,
     rows \in UNION {[1..n -> CellHeights] : n \in 0..MaxRows}, startY \in StartYs}

\* The row counts of company.json's five tables
Companies ==
  {<<proposal, 1, scope, 1, 1>> : proposal \in 0..MaxTemplate, scope \in 0..1}

\* Requests for the PDF of a quotation
PdfRequests ==
  {[IdleDoc EXCEPT !.route = "lookup", !.found = found, !.company = company,
                   !.nItems = nItems, !.tableTop = tableTop, !.notes = notes] :
     found \in BOOLEAN, company \in Companies, nItems \in 0..MaxLines,
     tableTop \in {25000, 69000}, notes \in BOOLEAN}

InitPdf ==
  /\ InitSystem
  /\ calc = IdleCalc
  /\ doc \in Tables \cup PdfRequests

NextPdf ==
  \/ DrawTableTitle
  \/ DrawTableHeader
  \/ DrawTableRow
  \/ DrawTableReturn
  \/ PdfLookup
  \/ PdfItems
  \/ PdfSection
  \/ PdfSectionDone
  \/ PdfEnd

SpecPdf == InitPdf /\ [][NextPdf]_vars

(***************************************************************************)
(* Properties of drawTable and of the PDF route, under SpecPdf             *)
(***************************************************************************)
\* C18: for every table, the cursor y that drawTable returns is less than
\* the bottom bound of the page, the page height minus the bottom margin.
C18ReturnedYAbovePageBottom ==
  doc.pc = "returned" => doc.ret < PageBottom

\* Something of the table of the proposal rows is drawn on some page
ProposalSectionDrawn ==
  \E k \in 1..Len(doc.pages) :
    \E j \in 1..Len(doc.pages[k]) : doc.pages[k][j].table = SectionTitles[1]

\* C19: when the proposal template has no rows, the PDF of a quotation has
\* nothing of the section "ITEMS CONSIDERED FOR PROPOSAL", neither its title
\* bar nor its header row, and the cursor is not advanced for it.
C19EmptyTemplateSuppressed ==
  (doc.route = "section" /\ doc.company[1] = 0)
    => /\ ~ProposalSectionDrawn
       /\ (doc.section = 1 /\ doc.pc = "returned") => doc.ret = doc.startY

\* The title bar, the header row or a data row of a table, at y
Element(title, kind, y, h) == [table |-> title, kind |-> kind, y |-> y, h |-> h]

\* What the top of a page shows after a page break within a table: the title
\* bar when there is a title and it is repeated, then the header row
RepeatedOnBreak(title, drawTitleOnNewPage) ==
  IF title # "" /\ drawTitleOnNewPage
  THEN <<Element(title, "title", Margin, HeaderHeight),
         Element(title, "header", Margin + HeaderHeight, HeaderHeight)>>
  ELSE <<Element(title, "header", Margin, HeaderHeight)>>

\* The bottom of the last thing on a page, the top margin on an empty page
BottomOf(page) ==
  IF page = <<>> THEN Margin ELSE page[Len(page)].y + page[Len(page)].h

\* The drawing of the next data row: on the current page when the row ends
\* within the bottom bound, else on a new page under the repeated rows
RowStepBreaks ==
  (doc.pc = "rows" /\ doc'.pc = "rows" /\ doc'.i = doc.i + 1)
    => IF doc.y + RowHeight(doc.rows[doc.i]) > PageBottom
       THEN /\ Len(doc'.pages) = Len(doc.pages) + 1
            /\ doc'.pages[Len(doc'.pages)] =
                 Append(RepeatedOnBreak(doc.title, doc.drawTitleOnNewPage),
                        Element(doc.title, "row",
                                BottomOf(RepeatedOnBreak(doc.title, doc.drawTitleOnNewPage)),
                                RowHeight(doc.rows[doc.i])))
       ELSE /\ Len(doc'.pages) = Len(doc.pages)
            /\ doc'.pages[Len(doc.pages)] =
                 Append(doc.pages[Len(doc.pages)],
                        Element(doc.title, "row", doc.y, RowHeight(doc.rows[doc.i])))

\* Pages are appended, and a page that is no longer the last one is as it
\* was; the last page only gets more
PagesOnlyAppended ==
  /\ Len(doc'.pages) >= Len(doc.pages)
  /\ \A k \in 1..Len(doc.pages) :
       IF k < Len(doc'.pages) \/ k < Len(doc.pages)
       THEN doc'.pages[k] = doc.pages[k]
       ELSE /\ Len(doc'.pages[k]) >= Len(doc.pages[k])
            /\ SubSeq(doc'.pages[k], 1, Len(doc.pages[k])) = doc.pages[k]

\* Every data row has, above it on its page, the header row of its table
RowsUnderHeader ==
  \A k \in 1..Len(doc.pages) :
    \A j \in 1..Len(doc.pages[k]) :
      doc.pages[k][j].kind = "row"
        => \E a \in 1..(j - 1) :
             /\ doc.pages[k][a].kind = "header"
             /\ doc.pages[k][a].table = doc.pages[k][j].table
             /\ doc.pages[k][a].y + doc.pages[k][a].h <= doc.pages[k][j].y

\* C20: in drawTable a row that would end below the bottom bound of the page
\* is drawn on a new page, at the top margin under the title (when there is
\* one and drawTitleOnNewPage is true) and the header row, which are drawn
\* first; every data row is on a page with the header row above it; pages
\* are only appended, never revisited.
C20PageBreakRepeatsHeader ==
  /\ [][RowStepBreaks /\ PagesOnlyAppended]_vars
  /\ []RowsUnderHeader

\* drawTable has returned from a table of which a row did not fit: a page
\* ends with a data row and the next one begins with the title bar at the
\* top margin, the header row and the data row
C20Witness ==
  /\ doc.pc = "returned"
  /\ \E k \in 2..Len(doc.pages) :
       /\ doc.pages[k - 1] # <<>>
       /\ doc.pages[k - 1][Len(doc.pages[k - 1])].kind = "row"
       /\ Len(doc.pages[k]) >= 3
       /\ SubSeq(doc.pages[k], 1, 2) = RepeatedOnBreak(doc.title, TRUE)
       /\ doc.pages[k][3].kind = "row"
       /\ doc.pages[k][3].y = Margin + 2 * HeaderHeight

(***************************************************************************)
(* The persisted quotations across saves, under Spec                       *)
(***************************************************************************)
\* The ids of the persisted quotations
Persisted == {id \in Ids : quotes[id].id = id}

\* The save of p returns or throws in this step
Returns(p) == proc[p].pc # "done" /\ proc'[p].pc = "done"

\* C21: a save that is given a quoteId, as POST /quotes/:id gives it, never
\* creates a quotation: whatever the id, 0 and ids that are no numbers
\* included, the quotation with that id is updated or the save fails, and
\* the number of persisted quotations stays as it was.
C21EditNeverCreates ==
  [][\A p \in Procs :
       (Returns(p) /\ proc[p].quoteId # Undefined)
         => /\ Persisted' = Persisted
            /\ proc'[p].result = "ok"
                 => /\ NamesQuote(proc[p].quoteId)
                    /\ proc[p].quoteId = JStr(NatToString(proc[p].finalQuoteId))]_vars

\* C22: after any saves, committed or rolled back, of any dates, every
\* persisted quotation has a quote_no, and no two persisted quotations have
\* the same quote_no.
C22QuoteNosUniqueAndSet ==
  \A id \in Persisted :
    /\ quotes[id].quote_no # Null
    /\ \A other \in Persisted \ {id} : quotes[other].quote_no # quotes[id].quote_no

\* Two quotations of the same year are persisted, the second one edited
\* since, and a save has been rolled back
C22Witness ==
  /\ quotes[1].quote_no = JStr(generateQuoteNumber(1, Date2025, "UTC or ahead"))
  /\ quotes[2].quote_no = JStr(generateQuoteNumber(2, Date2025, "UTC or ahead"))
  /\ \E p \in Procs : /\ proc[p].pc = "done"
                      /\ proc[p].result = "persistence failure"
                      /\ proc[p].quoteId = JStr(<<"2">>)

====
